---- MODULE Spec2Model ----
(***************************************************************************)
(* Model of deepchem/utils/protein_sequence_feature_utils.py: the          *)
(* alignment encoder, the sequence reweighter, the profile estimators and  *)
(* the mutual-information features.  Every function of the file is a pure  *)
(* function; each is an operator here, and each specification draws the    *)
(* function's arguments in Init and applies the function in one action.    *)
(*                                                                         *)
(* Real numbers are exact rationals <<n, d>> in lowest terms with d > 0;   *)
(* the three IEEE values a float division by zero produces are <<1, 0>>    *)
(* (inf), <<-1, 0>> (-inf) and <<0, 0>> (nan).  The effective alignment    *)
(* depth, a sum that is compared with exact integers, is computed in IEEE  *)
(* double precision.                                                       *)
(***************************************************************************)
EXTENDS Integers, Sequences, FiniteSets, TLC

VARIABLES
  pc,                    \* the function about to run, "done", or the exception raised
  sequence,              \* the query string, a sequence of characters
  a3m_seqs,              \* the rows of the alignment, each a sequence of characters
  clean,                 \* the filter flag of read_a3m_as_mat
  seq_mat,               \* the sequence matrix, a sequence of rows of indices
  weights,               \* the weight of each row of seq_mat
  feat,                  \* the matrix sequence_static_prop returns
  seq_one_hot,           \* the matrix sequence_one_hot_encoding returns
  deletion_probability,  \* the vector sequence_deletion_probability returns
  prof_freq,             \* the matrix sequence_profile returns
  prof_no_gap,           \* the matrix sequence_profile_no_gap returns
  prof_2D,               \* the tensor profile_combinatorial returns
  H_1D,                  \* the column entropies inside mutual_information
  H_2D,                  \* the column-pair entropies inside mutual_information
  MI_feats               \* the tensor mutual_information returns

inVars == <<sequence, a3m_seqs, clean>>
auxVars == <<seq_one_hot, deletion_probability>>
profVars == <<prof_freq, prof_no_gap, prof_2D>>
miVars == <<H_1D, H_2D, MI_feats>>

vars == <<pc, inVars, seq_mat, weights, feat, auxVars, profVars, miVars>>

\* Value of a variable that holds no result (yet).
None == "None"

NoAux == seq_one_hot = None /\ deletion_probability = None
NoProfiles == prof_freq = None /\ prof_no_gap = None /\ prof_2D = None
NoMI == H_1D = None /\ H_2D = None /\ MI_feats = None

(***************************************************************************)
(* Bounds of the model.                                                    *)
(***************************************************************************)
\* longest query of the alignment encoder
MaxLen == 2
\* most rows of an alignment handed to the encoder
MaxRows == 3
\* longest string handed to the one-hot encoder
MaxSeq == 3
\* most rows of an alignment handed to sequence_deletion_probability, and most
\* insertion characters of one row
MaxDelRows == 2
MaxIns == 2
\* most rows and most columns of a sequence matrix handed to the reweighter
MaxAlign == 3
MaxRes == 3
\* most rows of a one-column sequence matrix handed to the reweighter
MaxDeep == 6
\* most columns of the profiles handed to mutual_information
MaxMIRes == 2
\* most rows of a sequence matrix handed to the profile estimators
MaxProfAlign == 3

(***************************************************************************)
(* Exact rational arithmetic with the IEEE special values.                 *)
(***************************************************************************)
Abs(x) == IF x < 0 THEN -x ELSE x

Sign(x) == IF x < 0 THEN -1 ELSE IF x > 0 THEN 1 ELSE 0

RECURSIVE GCD(_, _)
GCD(a, b) == IF b = 0 THEN a ELSE GCD(b, a % b)

\* n/d with d # 0, in lowest terms with a positive denominator
Rat(n, d) ==
  LET g == GCD(Abs(n), Abs(d)) IN <<Sign(d) * (n \div g), Abs(d) \div g>>

NaN == <<0, 0>>
Zero == <<0, 1>>
One == <<1, 1>>

FromInt(k) == <<k, 1>>

IsFinite(x) == x[2] # 0

RAdd(x, y) ==
  IF x = Zero THEN y
  ELSE IF y = Zero THEN x
  ELSE IF IsFinite(x) /\ IsFinite(y) THEN Rat(x[1] * y[2] + y[1] * x[2], x[2] * y[2])
  ELSE IF x = NaN \/ y = NaN THEN NaN
  ELSE IF IsFinite(x) THEN y
  ELSE IF IsFinite(y) THEN x
  ELSE IF x = y THEN x ELSE NaN

RNeg(x) == <<-x[1], x[2]>>

RSub(x, y) == RAdd(x, RNeg(y))

RMul(x, y) ==
  IF IsFinite(x) /\ IsFinite(y) THEN Rat(x[1] * y[1], x[2] * y[2])
  ELSE IF x = NaN \/ y = NaN THEN NaN
  ELSE IF x[1] = 0 \/ y[1] = 0 THEN NaN
  ELSE <<Sign(x[1]) * Sign(y[1]), 0>>

\* float division: x/0 is nan for x = 0 and a signed infinity otherwise
RDiv(x, y) ==
  IF x = NaN \/ y = NaN THEN NaN
  ELSE IF IsFinite(x) /\ IsFinite(y)
       THEN IF y[1] = 0 THEN <<Sign(x[1]), 0>> ELSE Rat(x[1] * y[2], x[2] * y[1])
  ELSE IF IsFinite(y) THEN <<x[1] * (IF y[1] < 0 THEN -1 ELSE 1), 0>>
  ELSE IF IsFinite(x) THEN Zero
  ELSE NaN

RLess(x, y) == IsFinite(x) /\ IsFinite(y) /\ x[1] * y[2] < y[1] * x[2]

RLeq(x, y) == IsFinite(x) /\ IsFinite(y) /\ x[1] * y[2] <= y[1] * x[2]

RECURSIVE RSum(_)
RSum(s) == IF s = <<>> THEN Zero ELSE RAdd(RSum(SubSeq(s, 1, Len(s) - 1)), s[Len(s)])

RECURSIVE Sum(_)
Sum(s) == IF s = <<>> THEN 0 ELSE Sum(SubSeq(s, 1, Len(s) - 1)) + s[Len(s)]

\* all sequences over S of a length in lo..hi
SeqsOf(S, lo, hi) == UNION {[1..n -> S] : n \in lo..hi}

(***************************************************************************)
(* IEEE double precision, for the one place where the rounding of a sum    *)
(* is compared with an exact integer (the effective alignment depth).  A   *)
(* double x >= 2^-7 is the natural number x * 2^FracBits, which is exact   *)
(* for every such double below 2^15; the number is a sequence of NumLimbs  *)
(* limbs to the base LimbBase, least significant limb first.               *)
(***************************************************************************)
\* bits of one limb, and the base 2^15
LimbBits == 15
LimbBase == 32768
\* limbs of a number
NumLimbs == 5
\* binary places after the point: 4 limbs
FracBits == 60
\* significant bits of a double
Precision == 53

RECURSIVE Pow2(_)
Pow2(k) == IF k = 0 THEN 1 ELSE 2 * Pow2(k - 1)

\* the limbs f[1], ..., f[NumLimbs] as a tuple
Limbs(f) == SubSeq(f, 1, NumLimbs)

\* the number v < LimbBase, placed in limb h
BigLimb(v, h) == Limbs([i \in 1..NumLimbs |-> IF i = h THEN v ELSE 0])

\* carry out of the limbs 1..i of x + y
RECURSIVE CarryOut(_, _, _)
CarryOut(x, y, i) ==
  IF i = 0 THEN 0 ELSE (x[i] + y[i] + CarryOut(x, y, i - 1)) \div LimbBase

BigAdd(x, y) ==
  Limbs([i \in 1..NumLimbs |-> (x[i] + y[i] + CarryOut(x, y, i - 1)) % LimbBase])

\* x < y: decided at the most significant limb where they differ
BigLess(x, y) ==
  \E i \in 1..NumLimbs :
    x[i] < y[i] /\ \A h \in (i + 1)..NumLimbs : x[h] = y[h]

BigLeq(x, y) == x = y \/ BigLess(x, y)

RECURSIVE BitsOf(_)
BitsOf(v) == IF v = 0 THEN 0 ELSE 1 + BitsOf(v \div 2)

\* number of bits of x # 0
BitLen(x) ==
  LET h == CHOOSE i \in 1..NumLimbs : x[i] # 0 /\ \A j \in (i + 1)..NumLimbs : x[j] = 0
  IN LimbBits * (h - 1) + BitsOf(x[h])

\* x with its t lowest bits (0 < t < LimbBits) rounded away: low is their value;
\* to nearest, ties (and what was cut off before, if sticky) decide by the last
\* bit kept
RoundAway(x, sticky, t, low, unit) ==
  IF 2 * low > unit \/ (2 * low = unit /\ (sticky \/ (x[1] \div unit) % 2 = 1))
  THEN BigAdd([x EXCEPT ![1] = x[1] - low], BigLimb(unit, 1))
  ELSE [x EXCEPT ![1] = x[1] - low]

RoundBits(x, sticky, t, unit) == RoundAway(x, sticky, t, x[1] % unit, unit)

\* x rounded to Precision significant bits, to nearest, ties to even; sticky says
\* that a nonzero part below the last bit of x was cut off before
RoundTo(x, sticky, t) == IF t <= 0 THEN x ELSE RoundBits(x, sticky, t, Pow2(t))

Round53(x, sticky) == RoundTo(x, sticky, BitLen(x) - Precision)

\* remainder of the limbs i..NumLimbs of x divided by d
RECURSIVE RemFrom(_, _, _)
RemFrom(x, d, i) ==
  IF i > NumLimbs THEN 0 ELSE (RemFrom(x, d, i + 1) * LimbBase + x[i]) % d

\* the double n/d of the float division of the integers n by d (n < LimbBase,
\* d < LimbBase, n/d >= 2^-7)
FlDiv(n, d) ==
  LET x == BigLimb(n, NumLimbs)
      q == [i \in 1..NumLimbs |-> (RemFrom(x, d, i + 1) * LimbBase + x[i]) \div d]
  IN Round53(Limbs(q), RemFrom(x, d, 1) # 0)

\* the doubles 1.0 / k of sequence_weights, k < LimbBase \div 2
Reciprocals == [k \in 1..64 |-> FlDiv(1, k)]

\* the double of a weight held as the rational 1/k
ToDouble(w) == IF w[1] = 1 /\ w[2] \in DOMAIN Reciprocals THEN Reciprocals[w[2]]
               ELSE FlDiv(w[1], w[2])

\* float addition: the exact sum, rounded
FlAdd(x, y) == Round53(BigAdd(x, y), FALSE)

FlZero == BigLimb(0, 1)

\* the double of the integer k < LimbBase
FlInt(k) == BigLimb(k, NumLimbs)

\* ndarray.sum() of fewer than 8 doubles: numpy adds them one after the other
RECURSIVE FlSum(_)
FlSum(s) ==
  IF s = <<>> THEN FlZero ELSE FlAdd(FlSum(SubSeq(s, 1, Len(s) - 1)), s[Len(s)])

(***************************************************************************)
(* The alphabet table (deepchem.utils.amino_acid_utils.AminoAcid): 22      *)
(* symbols, indices 0..21, the unknown symbol X and the gap last.          *)
(***************************************************************************)
AminoAcidKeys ==
  <<"A", "R", "N", "D", "C", "Q", "E", "G", "H", "I", "L", "K", "M", "F", "P",
    "S", "T", "W", "Y", "V", "X", "-">>

AminoAcid ==
  [s \in {AminoAcidKeys[i] : i \in 1..Len(AminoAcidKeys)} |->
     (CHOOSE i \in 1..Len(AminoAcidKeys) : AminoAcidKeys[i] = s) - 1]

\* str.islower and str.isalpha on the characters the model draws from
LowercaseLetters == {"a", "c", "d", "e"}

UppercaseLetters == (DOMAIN AminoAcid \ {"-"}) \cup {"B", "Z"}

islower(s) == s \in LowercaseLetters

isalpha(s) == s \in LowercaseLetters \cup UppercaseLetters

amino_acid_to_numeric(s) ==
  IF s \in DOMAIN AminoAcid THEN AminoAcid[s] ELSE AminoAcid["X"]

(***************************************************************************)
(* read_a3m_as_mat and sequence_identity                                   *)
(***************************************************************************)
\* ((s1 == s2) * (s1 != AminoAcid['-'])).sum(), for arrays of one length
sequence_identity(s1, s2) ==
  Sum([p \in 1..Len(s1) |->
         (IF s1[p] = s2[p] THEN 1 ELSE 0) * (IF s1[p] # AminoAcid["-"] THEN 1 ELSE 0)])

\* [amino_acid_to_numeric(s) for s in seq]
ToNumeric(seq) == [p \in 1..Len(seq) |-> amino_acid_to_numeric(seq[p])]

NotLower(s) == ~islower(s)

\* [amino_acid_to_numeric(s) for s in seq if not s.islower()]
StripToNumeric(seq) == ToNumeric(SelectSeq(seq, NotLower))

\* Filtered with the factor 0.01 left out: identity < seq_len
Filtered_NoPercent(sequence_array, seq_arr, cl) ==
  cl /\ sequence_identity(sequence_array, seq_arr) < Len(sequence_array)

\* the condition of the loop's continue: identity < seq_len * 0.01
Filtered(sequence_array, seq_arr, cl) ==
  cl /\ 100 * sequence_identity(sequence_array, seq_arr) < Len(sequence_array)

\* the loop of read_a3m_as_mat over the first n rows
RECURSIVE ReadRows(_, _, _, _)
ReadRows(sequence_array, rows, cl, n) ==
  IF n = 0 THEN <<>>
  ELSE LET sofar == ReadRows(sequence_array, rows, cl, n - 1)
           seq_arr == StripToNumeric(rows[n])
       IN IF Filtered(sequence_array, seq_arr, cl) THEN sofar
          ELSE Append(sofar, seq_arr)

read_a3m_as_mat(sq, rows, cl) == ReadRows(ToNumeric(sq), rows, cl, Len(rows))

(***************************************************************************)
(* sequence_weights and sequence_static_prop                               *)
(***************************************************************************)
\* number of columns in which two rows differ
Differing(u, v) == Cardinality({p \in 1..Len(u) : u[p] # v[p]})

\* Near with the number of differing columns not divided by the length
Near_Unnormalised(u, v) == 100 * Differing(u, v) < 38

\* pdist(seq_mat, 'hamming') < 0.38 for one pair of rows
Near(u, v) == 100 * Differing(u, v) < 38 * Len(u)

\* squareform with the diagonal compared like any other pair: a row is its own
\* near-duplicate
squareform_WithDiagonal(mat) ==
  [i \in 1..Len(mat) |-> [j \in 1..Len(mat) |->
     IF Near(mat[i], mat[j]) THEN 1 ELSE 0]]

\* squareform(dist_mat < 0.38): symmetric, False on the diagonal
squareform(mat) ==
  [i \in 1..Len(mat) |-> [j \in 1..Len(mat) |->
     IF i # j /\ Near(mat[i], mat[j]) THEN 1 ELSE 0]]

\* sequence_weights without the inversion: 1 + np.sum(dist_mat, 0)
sequence_weights_NotInverted(mat) ==
  LET dist_mat == squareform(mat)
  IN [j \in 1..Len(mat) |-> FromInt(1 + Sum([i \in 1..Len(mat) |-> dist_mat[i][j]]))]

sequence_weights(mat) ==
  LET dist_mat == squareform(mat)
  IN [j \in 1..Len(mat) |->
        RDiv(One, FromInt(1 + Sum([i \in 1..Len(mat) |-> dist_mat[i][j]])))]

sequence_static_prop(mat, w) ==
  LET seq_length == Len(mat[1])
      num_alignments == Len(mat)
      num_effective_alignments == FlSum([r \in 1..Len(w) |-> ToDouble(w[r])])
  IN [p \in 1..seq_length |->
        <<p - 1, seq_length, num_alignments, num_effective_alignments>>]

(***************************************************************************)
(* The encoder specification: an alignment is drawn, encoded, reweighted   *)
(* and summarised.                                                         *)
(***************************************************************************)
\* characters of the aligned columns, and the insertion character
AlignedChars == {"A", "-"}

InsertionChar == "a"

\* s with the insertion character put before its last character
Inserted(s) ==
  SubSeq(s, 1, Len(s) - 1) \o <<InsertionChar>> \o SubSeq(s, Len(s), Len(s))

\* the rows aligned to a query of length L: L aligned characters, with or without
\* an insertion
RowsOfLen(L) ==
  LET aligned == [1..L -> AlignedChars]
  IN aligned \cup {Inserted(s) : s \in aligned}

\* the scenario of the specification: query ACD, rows ACD, ACE, A-D
ScenarioRows == <<<<"A", "C", "D">>, <<"A", "C", "E">>, <<"A", "-", "D">>>>

InitInputs ==
  \/ \E L \in 1..MaxLen : \E n \in 1..MaxRows :
       /\ sequence \in [1..L -> AlignedChars]
       /\ a3m_seqs \in [1..n -> RowsOfLen(L)]
       /\ \/ a3m_seqs[1] = sequence
          \/ n = 1 /\ a3m_seqs[1] # sequence
  \/ /\ a3m_seqs = ScenarioRows
     /\ sequence = ScenarioRows[1]

InitEncode ==
  /\ InitInputs
  /\ clean \in BOOLEAN
  /\ pc = "read_a3m_as_mat"
  /\ seq_mat = None
  /\ weights = None
  /\ feat = None
  /\ NoAux
  /\ NoProfiles
  /\ NoMI

\* assert sequence == a3m_seqs[0]
ReadA3mAssert ==
  /\ pc = "read_a3m_as_mat"
  /\ sequence # a3m_seqs[1]
  /\ pc' = "AssertionError"
  /\ UNCHANGED <<inVars, seq_mat, weights, feat, auxVars, profVars, miVars>>

ReadA3m ==
  /\ pc = "read_a3m_as_mat"
  /\ sequence = a3m_seqs[1]
  /\ seq_mat' = read_a3m_as_mat(sequence, a3m_seqs, clean)
  /\ pc' = "sequence_weights"
  /\ UNCHANGED <<inVars, weights, feat, auxVars, profVars, miVars>>

\* n_align, n_res = seq_mat.shape fails on the shape (0,) of an empty matrix
SequenceWeightsError ==
  /\ pc = "sequence_weights"
  /\ seq_mat = <<>>
  /\ pc' = "ValueError"
  /\ UNCHANGED <<inVars, seq_mat, weights, feat, auxVars, profVars, miVars>>

SequenceWeights ==
  /\ pc = "sequence_weights"
  /\ seq_mat # <<>>
  /\ weights' = sequence_weights(seq_mat)
  /\ pc' = "sequence_static_prop"
  /\ UNCHANGED <<inVars, seq_mat, feat, auxVars, profVars, miVars>>

SequenceStaticProp ==
  /\ pc = "sequence_static_prop"
  /\ feat' = sequence_static_prop(seq_mat, weights)
  /\ pc' = "done"
  /\ UNCHANGED <<inVars, seq_mat, weights, auxVars, profVars, miVars>>

NextEncode ==
  \/ ReadA3mAssert
  \/ ReadA3m
  \/ SequenceWeightsError
  \/ SequenceWeights
  \/ SequenceStaticProp

SpecEncode == InitEncode /\ [][NextEncode]_vars

(***************************************************************************)
(* Claims about the encoder (SpecEncode).                                  *)
(***************************************************************************)
\* read_a3m_as_mat has returned a matrix
Encoded == pc \in {"sequence_weights", "sequence_static_prop", "done", "ValueError"}

GapIndex == AminoAcid["-"]

\* the identity score of the specification: matching, non-gap positions
IdentityScore(q, r) == Cardinality({p \in 1..Len(q) : r[p] = q[p] /\ q[p] # GapIndex})

\* the rows the specification keeps: all of them without the filter, and with it
\* those whose identity score is not strictly below 1% of the query length
KeptRows ==
  {i \in 1..Len(a3m_seqs) :
     ~clean \/ ~(100 * IdentityScore(ToNumeric(sequence), StripToNumeric(a3m_seqs[i]))
                   < Len(sequence))}

\* the j-th kept row, in the order of the alignment
KeptRow(j) == CHOOSE i \in KeptRows : Cardinality({h \in KeptRows : h < i}) = j - 1

\* C1: the first row of the matrix read_a3m_as_mat returns is the encoding of the
\* query, whatever the query, the rows after it and the filter flag; the matrix
\* is never empty.
C1_QueryRowRetained ==
  Encoded => (seq_mat # <<>> /\ seq_mat[1] = ToNumeric(sequence))

\* C2: with the filter on, a row is discarded exactly when its identity score is
\* strictly below 1% of the query length; the rows kept appear in the matrix in
\* their original order; with the filter off no row is discarded.
C2_FilterExactlyLowIdentity ==
  Encoded =>
    /\ Len(seq_mat) = Cardinality(KeptRows)
    /\ \A j \in 1..Len(seq_mat) : seq_mat[j] = StripToNumeric(a3m_seqs[KeptRow(j)])
    /\ (~clean => Len(seq_mat) = Len(a3m_seqs))

\* C2 witness: the filter is on, the query is kept, a later row is discarded and
\* a row after the discarded one is kept.
C2_Witness ==
  /\ Encoded
  /\ clean
  /\ \E i, j \in 1..Len(a3m_seqs) :
       i < j /\ i \notin KeptRows /\ j \in KeptRows /\ 1 \in KeptRows

Scenario == a3m_seqs = ScenarioRows /\ sequence = ScenarioRows[1] /\ ~clean

\* C4 as stated: in the scenario (query ACD, rows ACD, ACE, A-D, no filter) the
\* matrix is 3x3 and all three weights are 1/3.
C4_ScenarioAllThird ==
  (Scenario /\ pc = "done") =>
    /\ Len(seq_mat) = 3
    /\ \A r \in 1..3 : Len(seq_mat[r]) = 3
    /\ weights = <<Rat(1, 3), Rat(1, 3), Rat(1, 3)>>

\* C4 amended: in the scenario the matrix is 3x3; ACE and A-D differ in two of
\* three columns and are no near-duplicates of each other, so the weights are
\* 1/3 for the query and 1/2 for each of the two other rows.
C4_ScenarioWeights ==
  (Scenario /\ pc = "done") =>
    /\ Len(seq_mat) = 3
    /\ \A r \in 1..3 : Len(seq_mat[r]) = 3
    /\ weights = <<Rat(1, 3), Rat(1, 2), Rat(1, 2)>>

C4_Witness == Scenario /\ pc = "done" /\ Len(weights) = 3

(***************************************************************************)
(* The reweighter specification: a sequence matrix is drawn, reweighted    *)
(* and summarised.                                                         *)
(***************************************************************************)
\* the residue indices of the matrices drawn: A and the gap
ResidueSyms == {AminoAcid["A"], AminoAcid["-"]}

Matrices(M, L) == [1..M -> [1..L -> ResidueSyms]]

InitWeights ==
  /\ \/ \E M \in 1..MaxAlign : \E L \in 1..MaxRes : seq_mat \in Matrices(M, L)
     \/ \E M \in 1..MaxDeep : seq_mat \in Matrices(M, 1)
  /\ pc = "sequence_weights"
  /\ sequence = None
  /\ a3m_seqs = None
  /\ clean = None
  /\ weights = None
  /\ feat = None
  /\ NoAux
  /\ NoProfiles
  /\ NoMI

NextWeights ==
  \/ SequenceWeights
  \/ SequenceStaticProp

SpecWeights == InitWeights /\ [][NextWeights]_vars

(***************************************************************************)
(* Claims about the reweighter (SpecWeights).                              *)
(***************************************************************************)
Weighted == pc \in {"sequence_static_prop", "done"}

\* Hamming distance of the rows r and s: differing columns over L
Hamming(r, s) ==
  Rat(Cardinality({c \in 1..Len(seq_mat[r]) : seq_mat[r][c] # seq_mat[s][c]}),
      Len(seq_mat[r]))

\* the other rows that are near-duplicates of row r
NearDuplicates(r) ==
  {s \in 1..Len(seq_mat) \ {r} : RLess(Hamming(r, s), Rat(38, 100))}

\* C3: weight[r] = 1 / (1 + k_r), k_r the number of other rows at a Hamming
\* distance strictly below 0.38 from row r.
C3_WeightIsInverseOfNearDuplicates ==
  Weighted =>
    /\ Len(weights) = Len(seq_mat)
    /\ \A r \in 1..Len(seq_mat) :
         weights[r] = Rat(1, 1 + Cardinality(NearDuplicates(r)))

\* C3 witness: a row with one other row at a distance in (0, 0.38), which counts,
\* and one other row at a distance of 0.38 or more, which does not.
C3_Witness ==
  /\ Weighted
  /\ \E r, s, u \in 1..Len(seq_mat) :
       /\ r # s /\ r # u
       /\ s \in NearDuplicates(r) /\ Hamming(r, s) # Zero
       /\ u \notin NearDuplicates(r)
       /\ weights[r] = Rat(1, 2)

\* the effective alignment depth sequence_static_prop reports
EffectiveDepth == feat[1][4]

\* the first two parts of C10: every weight is 1/k with k in 1..M, and two rows
\* with the same near-duplicates (apart from each other) have equal weights
WeightsWellFormed ==
  /\ \A r \in 1..Len(seq_mat) : \E k \in 1..Len(seq_mat) : weights[r] = Rat(1, k)
  /\ \A r, s \in 1..Len(seq_mat) :
       (NearDuplicates(r) \ {s} = NearDuplicates(s) \ {r}) => weights[r] = weights[s]
  /\ \A r, s \in 1..Len(seq_mat) : seq_mat[r] = seq_mat[s] => weights[r] = weights[s]

\* C10 as stated: every weight is 1/k with k in 1..M, rows with the same
\* near-duplicates have equal weights, and the effective depth reported lies
\* between 1 and M inclusive.
C10_DepthBetweenOneAndM ==
  pc = "done" =>
    /\ WeightsWellFormed
    /\ BigLeq(FlInt(1), EffectiveDepth)
    /\ BigLeq(EffectiveDepth, FlInt(Len(seq_mat)))

\* C10 amended: the weights are as stated; the effective depth, a sum of doubles,
\* is at most M and at least 1 - M * 2^-53 (the exact sum is at least 1, the
\* rounded one can fall below it).
C10_DepthUpToRounding ==
  pc = "done" =>
    /\ WeightsWellFormed
    /\ BigLeq(FlInt(1),
              BigAdd(EffectiveDepth,
                     BigLimb(Len(seq_mat) * Pow2(FracBits - Precision), 1)))
    /\ BigLeq(EffectiveDepth, FlInt(Len(seq_mat)))
    /\ RLeq(One, RSum(weights))

\* C10 witness: rows with different weights, two different rows with the same
\* near-duplicates, and a depth strictly between 1 and M.
C10_Witness ==
  /\ pc = "done"
  /\ \E r, s \in 1..Len(seq_mat) : weights[r] # weights[s]
  /\ \E r, s \in 1..Len(seq_mat) :
       r # s /\ seq_mat[r] # seq_mat[s] /\ NearDuplicates(r) \ {s} = NearDuplicates(s) \ {r}
  /\ BigLess(FlInt(1), EffectiveDepth)
  /\ BigLess(EffectiveDepth, FlInt(Len(seq_mat)))

(***************************************************************************)
(* sequence_one_hot_encoding                                               *)
(***************************************************************************)
\* InvalidChar without the exemption of the gap
InvalidChar_NoGap(s) == ~isalpha(s)

\* the test of the validation loop: not s == '-' and not s.isalpha()
InvalidChar(s) == s # "-" /\ ~isalpha(s)

\* np.zeros((len(sequence), len(AminoAcid))) with one 1 per row; the columns are
\* numbered from 0
sequence_one_hot_encoding(sq) ==
  [i \in 1..Len(sq) |->
     [c \in 0..(Cardinality(DOMAIN AminoAcid) - 1) |->
        IF c = amino_acid_to_numeric(sq[i]) THEN 1 ELSE 0]]

\* the characters of the strings drawn: two symbols of the table, a letter that
\* is not in it, a lowercase letter, the gap and a character that is no letter
OneHotChars == {"A", "X", "B", "a", "-", "*"}

InitOneHot ==
  /\ sequence \in SeqsOf(OneHotChars, 1, MaxSeq)
  /\ pc = "sequence_one_hot_encoding"
  /\ a3m_seqs = None
  /\ clean = None
  /\ seq_mat = None
  /\ weights = None
  /\ feat = None
  /\ NoAux
  /\ NoProfiles
  /\ NoMI

\* raise ValueError('Sequence %s not recognized' % sequence)
OneHotRaise ==
  /\ pc = "sequence_one_hot_encoding"
  /\ \E i \in 1..Len(sequence) : InvalidChar(sequence[i])
  /\ pc' = "ValueError"
  /\ UNCHANGED <<inVars, seq_mat, weights, feat, auxVars, profVars, miVars>>

OneHot ==
  /\ pc = "sequence_one_hot_encoding"
  /\ \A i \in 1..Len(sequence) : ~InvalidChar(sequence[i])
  /\ seq_one_hot' = sequence_one_hot_encoding(sequence)
  /\ pc' = "done"
  /\ UNCHANGED <<inVars, seq_mat, weights, feat, deletion_probability, profVars, miVars>>

NextOneHot ==
  \/ OneHotRaise
  \/ OneHot

SpecOneHot == InitOneHot /\ [][NextOneHot]_vars

\* the letters, of either case
Letters ==
  {"A", "R", "N", "D", "C", "Q", "E", "G", "H", "I", "L", "K", "M", "F", "P", "S",
   "T", "W", "Y", "V", "X", "B", "Z", "a", "c", "d", "e"}

\* C7: sequence_one_hot_encoding either raises ValueError, exactly when some
\* character is neither a letter nor '-', and returns no matrix, or returns an
\* L x 22 matrix whose row p has a single nonzero entry, a 1, at the index
\* amino_acid_to_numeric gives for the character at p.
C7_OneHotTwoOutcomes ==
  /\ pc \in {"sequence_one_hot_encoding", "ValueError", "done"}
  /\ pc = "ValueError" =>
       /\ \E i \in 1..Len(sequence) : sequence[i] \notin Letters \cup {"-"}
       /\ seq_one_hot = None
  /\ pc = "done" =>
       /\ \A i \in 1..Len(sequence) : sequence[i] \in Letters \cup {"-"}
       /\ DOMAIN seq_one_hot = 1..Len(sequence)
       /\ \A i \in 1..Len(sequence) :
            /\ DOMAIN seq_one_hot[i] = 0..21
            /\ {c \in 0..21 : seq_one_hot[i][c] # 0} = {amino_acid_to_numeric(sequence[i])}
            /\ seq_one_hot[i][amino_acid_to_numeric(sequence[i])] = 1

\* C7 witness: a matrix was returned for a string holding a letter that is not
\* in the table (encoded as X), a gap and a symbol of the table.
C7_Witness ==
  /\ pc = "done"
  /\ \E i, j, k \in 1..Len(sequence) :
       /\ sequence[i] = "B" /\ seq_one_hot[i][AminoAcid["X"]] = 1
       /\ sequence[j] = "-" /\ seq_one_hot[j][AminoAcid["-"]] = 1
       /\ sequence[k] = "A" /\ seq_one_hot[k][AminoAcid["A"]] = 1

(***************************************************************************)
(* sequence_deletion_probability                                           *)
(***************************************************************************)
\* DeletionScan without deletion_count = 0 after an aligned character
RECURSIVE DeletionScan_NoReset(_, _)
DeletionScan_NoReset(msa_sequence, n) ==
  IF n = 0 THEN <<<<>>, 0>>
  ELSE LET before == DeletionScan_NoReset(msa_sequence, n - 1)
       IN IF islower(msa_sequence[n]) THEN <<before[1], before[2] + 1>>
          ELSE <<Append(before[1], before[2]), before[2]>>

\* the inner loop over the first n characters of a row: <<deletion_vec,
\* deletion_count>>
RECURSIVE DeletionScan(_, _)
DeletionScan(msa_sequence, n) ==
  IF n = 0 THEN <<<<>>, 0>>
  ELSE LET before == DeletionScan(msa_sequence, n - 1)
       IN IF islower(msa_sequence[n]) THEN <<before[1], before[2] + 1>>
          ELSE <<Append(before[1], before[2]), 0>>

DeletionVec(msa_sequence) == DeletionScan(msa_sequence, Len(msa_sequence))[1]

\* rows whose deletion vectors all have len(sequence) entries
sequence_deletion_probability(sq, rows) ==
  LET deletion_matrix ==
        [r \in 1..Len(rows) |->
           [c \in 1..Len(sq) |-> IF DeletionVec(rows[r])[c] # 0 THEN 1 ELSE 0]]
  IN [c \in 1..Len(sq) |->
        <<RDiv(FromInt(Sum([r \in 1..Len(rows) |-> deletion_matrix[r][c]])),
               FromInt(Len(rows)))>>]

\* the rows of L aligned characters and at most MaxIns insertion characters
DeletionRows(L) ==
  {s \in SeqsOf({"A", InsertionChar}, L, L + MaxIns) : Len(SelectSeq(s, NotLower)) = L}

InitDeletion ==
  /\ \E L \in 1..MaxLen : \E n \in 1..MaxDelRows :
       /\ sequence = [p \in 1..L |-> "A"]
       /\ a3m_seqs \in [1..n -> DeletionRows(L)]
  /\ pc = "sequence_deletion_probability"
  /\ clean = None
  /\ seq_mat = None
  /\ weights = None
  /\ feat = None
  /\ NoAux
  /\ NoProfiles
  /\ NoMI

SequenceDeletionProbability ==
  /\ pc = "sequence_deletion_probability"
  /\ deletion_probability' = sequence_deletion_probability(sequence, a3m_seqs)
  /\ pc' = "done"
  /\ UNCHANGED <<inVars, seq_mat, weights, feat, seq_one_hot, profVars, miVars>>

NextDeletion == SequenceDeletionProbability

SpecDeletion == InitDeletion /\ [][NextDeletion]_vars

\* position in the row of its c-th character that is not lowercase
AlignedPos(row, c) ==
  CHOOSE k \in 1..Len(row) :
    ~islower(row[k]) /\ Cardinality({h \in 1..k : ~islower(row[h])}) = c

\* the rows with a lowercase character right before their c-th aligned character
RowsInsertingBefore(c) ==
  {r \in 1..Len(a3m_seqs) :
     LET k == AlignedPos(a3m_seqs[r], c) IN k > 1 /\ islower(a3m_seqs[r][k - 1])}

\* C8: entry c of the deletion probability is the number of rows with a lowercase
\* character right before their c-th non-lowercase character, over the number of
\* rows; it is 0 everywhere when no row has a lowercase character.
C8_DeletionProbability ==
  pc = "done" =>
    /\ DOMAIN deletion_probability = 1..Len(sequence)
    /\ \A c \in 1..Len(sequence) :
         deletion_probability[c] =
           <<Rat(Cardinality(RowsInsertingBefore(c)), Len(a3m_seqs))>>
    /\ (\A r \in 1..Len(a3m_seqs) : \A k \in 1..Len(a3m_seqs[r]) : ~islower(a3m_seqs[r][k]))
         => \A c \in 1..Len(sequence) : deletion_probability[c] = <<Zero>>

\* C8 witness: a row with two insertion characters before its first column and
\* none before its second, a row ending in an insertion character, and a column
\* whose probability is strictly between 0 and 1.
C8_Witness ==
  /\ pc = "done"
  /\ Len(sequence) = 2
  /\ \E r, s \in 1..Len(a3m_seqs) :
       /\ a3m_seqs[r] = <<"a", "a", "A", "A">>
       /\ a3m_seqs[s] = <<"A", "A", "a">>
  /\ deletion_probability = <<<<Rat(1, 2)>>, <<Zero>>>>

(***************************************************************************)
(* sequence_profile, sequence_profile_no_gap and profile_combinatorial.    *)
(* A profile is a sequence of rows, one per column of the alignment, each  *)
(* a function of the symbol index 0..R-1.                                  *)
(***************************************************************************)
\* the default weights=None of sequence_profile, as an argument
NoWeights == <<>>

\* if weights is None: weights = np.ones((seq_mat.shape[0], 1))
WeightsOrOnes(mat, w) == IF w = NoWeights THEN [r \in 1..Len(mat) |-> One] ELSE w

\* ((seq_mat == i) * weights).sum(0) at column c
WeightedCount(mat, w, c, i) ==
  RSum([r \in 1..Len(mat) |-> IF mat[r][c] = i THEN w[r] ELSE Zero])

\* prof_ct / prof_ct.sum(1, keepdims=True), for the counts ct of the symbols 0..R-1
Normalise(ct, R) ==
  [c \in 1..Len(ct) |->
     [i \in 0..(R - 1) |-> RDiv(ct[c][i], RSum([k \in 1..R |-> ct[c][k - 1]]))]]

sequence_profile(mat, w) ==
  LET prof_ct ==
        [c \in 1..Len(mat[1]) |->
           [i \in 0..21 |-> WeightedCount(mat, WeightsOrOnes(mat, w), c, i)]]
  IN Normalise(prof_ct, 22)

sequence_profile_no_gap(mat) ==
  LET prof_ct ==
        [c \in 1..Len(mat[1]) |->
           [i \in 0..20 |-> FromInt(Cardinality({r \in 1..Len(mat) : mat[r][c] = i}))]]
  IN Normalise(prof_ct, 21)

\* PairCode with the number of symbols without the gap as the base
PairCode_21(a, b) == a * 21 + b

\* seq_mat.reshape((M, N, 1)) * 22 + seq_mat.reshape((M, 1, N)) for one row and
\* one pair of columns
PairCode(a, b) == a * 22 + b

\* ((combined == (a * 22 + b)) * w).sum(0) at the columns i, j
PairCount(mat, w, i, j, a, b) ==
  RSum([r \in 1..Len(mat) |->
          IF PairCode(mat[r][i], mat[r][j]) = a * 22 + b THEN w[r] ELSE Zero])

profile_combinatorial(mat, w, w_prof) ==
  LET N == Len(mat[1])
      n_res == Cardinality(DOMAIN w_prof[1])
      total == RSum(w)
  IN [i \in 1..N |-> [j \in 1..N |->
        [a \in 0..(n_res - 1) |-> [b \in 0..(n_res - 1) |->
           RDiv(PairCount(mat, w, i, j, a, b), total)]]]]

\* the numbers of columns of the matrices drawn.  The estimators treat every
\* column, and every pair of columns, on its own: two columns show a pair of
\* different columns as well as a column paired with itself.
ProfileWidths == {1, 2}

InitProfile ==
  /\ \E M \in 1..MaxProfAlign : \E L \in ProfileWidths : seq_mat \in Matrices(M, L)
  /\ pc = "sequence_weights"
  /\ sequence = None
  /\ a3m_seqs = None
  /\ clean = None
  /\ weights = None
  /\ feat = None
  /\ NoAux
  /\ NoProfiles
  /\ NoMI

ProfileWeights ==
  /\ pc = "sequence_weights"
  /\ weights' = sequence_weights(seq_mat)
  /\ pc' = "sequence_profile"
  /\ UNCHANGED <<inVars, seq_mat, feat, auxVars, profVars, miVars>>

\* sequence_profile(seq_mat), without weights
SequenceProfileUnweighted ==
  /\ pc = "sequence_profile"
  /\ prof_freq' = sequence_profile(seq_mat, NoWeights)
  /\ pc' = "sequence_profile weighted"
  /\ UNCHANGED <<inVars, seq_mat, weights, feat, auxVars, prof_no_gap, prof_2D, miVars>>

\* sequence_profile(seq_mat, weights)
SequenceProfile ==
  /\ pc = "sequence_profile weighted"
  /\ prof_freq' = sequence_profile(seq_mat, weights)
  /\ pc' = "sequence_profile_no_gap"
  /\ UNCHANGED <<inVars, seq_mat, weights, feat, auxVars, prof_no_gap, prof_2D, miVars>>

SequenceProfileNoGap ==
  /\ pc = "sequence_profile_no_gap"
  /\ prof_no_gap' = sequence_profile_no_gap(seq_mat)
  /\ pc' = "profile_combinatorial"
  /\ UNCHANGED <<inVars, seq_mat, weights, feat, auxVars, prof_freq, prof_2D, miVars>>

\* profile_combinatorial, called with either profile as w_prof
ProfileCombinatorial ==
  /\ pc = "profile_combinatorial"
  /\ \/ prof_2D' = profile_combinatorial(seq_mat, weights, prof_freq)
     \/ prof_2D' = profile_combinatorial(seq_mat, weights, prof_no_gap)
  /\ pc' = "done"
  /\ UNCHANGED <<inVars, seq_mat, weights, feat, auxVars, prof_freq, prof_no_gap, miVars>>

NextProfile ==
  \/ ProfileWeights
  \/ SequenceProfileUnweighted
  \/ SequenceProfile
  \/ SequenceProfileNoGap
  \/ ProfileCombinatorial

SpecProfile == InitProfile /\ [][NextProfile]_vars

(***************************************************************************)
(* Claims about the profiles (SpecProfile).                                *)
(***************************************************************************)
\* sum of the entries 0..R-1 of a profile row
RowSum(row, R) == RSum([k \in 1..R |-> row[k - 1]])

\* C5: every row of the profiles of sequence_profile and sequence_profile_no_gap
\* sums to 1, for every sequence matrix with entries in 0..21, columns that are
\* gaps in every row included.  (The rows of sequence_profile_with_prior, which
\* the claim names too, are a blend of such a row with a normalised one.)
C5_ProfileRowsSumToOne ==
  pc \in {"profile_combinatorial", "done"} =>
    \A c \in 1..Len(seq_mat[1]) :
      /\ RowSum(prof_freq[c], 22) = One
      /\ RowSum(prof_no_gap[c], 21) = One

\* sum of the weights of a set of rows
RECURSIVE WeightOf(_)
WeightOf(S) ==
  IF S = {} THEN Zero
  ELSE LET r == CHOOSE x \in S : TRUE IN RAdd(weights[r], WeightOf(S \ {r}))

Rows == 1..Len(seq_mat)
Cols == 1..Len(seq_mat[1])

\* number of symbol types of the tensor
TensorR == Cardinality(DOMAIN prof_2D[1][1])

\* the weighted share of the rows with a at column i and b at column j
JointFreq(i, j, a, b) ==
  RDiv(WeightOf({r \in Rows : seq_mat[r][i] = a /\ seq_mat[r][j] = b}), WeightOf(Rows))

\* the weighted share of the rows with a at column i
ColumnFreq(i, a) == RDiv(WeightOf({r \in Rows : seq_mat[r][i] = a}), WeightOf(Rows))

\* C9: prof_2D[i,j,a,b] is the weight of the rows with a at column i and b at
\* column j over the total weight, for all i, j and all a, b < R; the tensor is
\* symmetric under exchanging (i, a) with (j, b); prof_2D[i,i,a,b] = 0 for
\* a # b; for R = 22 each (i, j) slice sums to 1 and summing over b gives the
\* weighted frequency of a at column i.
C9_PairwiseProfile ==
  pc = "done" =>
    /\ TensorR \in {21, 22}
    /\ \A i, j \in Cols : \A a, b \in 0..(TensorR - 1) :
         /\ prof_2D[i][j][a][b] = JointFreq(i, j, a, b)
         /\ prof_2D[i][j][a][b] = prof_2D[j][i][b][a]
         /\ (i = j /\ a # b) => prof_2D[i][j][a][b] = Zero
    /\ TensorR = 22 =>
         \A i, j \in Cols :
           /\ RSum([a \in 1..22 |-> RowSum(prof_2D[i][j][a - 1], 22)]) = One
           /\ \A a \in 0..21 : RowSum(prof_2D[i][j][a], 22) = ColumnFreq(i, a)

\* C9 witness: a tensor over 22 types of a matrix with unequal weights, whose
\* entry for (A, gap) at two different columns is neither 0 nor 1.
C9_Witness ==
  /\ pc = "done"
  /\ TensorR = 22
  /\ \E r, s \in Rows : weights[r] # weights[s]
  /\ \E i, j \in Cols :
       /\ i # j
       /\ RLess(Zero, prof_2D[i][j][AminoAcid["A"]][AminoAcid["-"]])
       /\ RLess(prof_2D[i][j][AminoAcid["A"]][AminoAcid["-"]], One)

(***************************************************************************)
(* mutual_information.  The entropies H_1D and H_2D are sums of            *)
(* -p * log(p + 1e-7) / log(21) over the entries p of the profiles, finite *)
(* for every profile; the model draws them instead of the profiles, from a *)
(* small set of finite values, and follows the function from there.        *)
(* A matrix is a sequence of rows.                                         *)
(***************************************************************************)

\* 2 * mat - np.triu(mat) - np.tril(mat)
no_diag(mat) ==
  LET triu(i, j) == IF j >= i THEN mat[i][j] ELSE Zero
      tril(i, j) == IF j <= i THEN mat[i][j] ELSE Zero
  IN [i \in 1..Len(mat) |-> [j \in 1..Len(mat) |->
        RSub(RSub(RMul(FromInt(2), mat[i][j]), triu(i, j)), tril(i, j))]]

\* -H_2D + H_1D.reshape((n_res, 1)) + H_1D.reshape((1, n_res))
RawMI(h1, h2) ==
  [i \in 1..Len(h1) |-> [j \in 1..Len(h1) |->
     RAdd(RAdd(RNeg(h2[i][j]), h1[i]), h1[j])]]

\* np.sum(MI, axis=1) / (n_res - 1)
MI_1D(MI) == [i \in 1..Len(MI) |-> RDiv(RSum(MI[i]), FromInt(Len(MI) - 1))]

\* np.sum(MI) / n_res / (n_res - 1)
MI_av(MI) ==
  RDiv(RDiv(RSum([i \in 1..Len(MI) |-> RSum(MI[i])]), FromInt(Len(MI))),
       FromInt(Len(MI) - 1))

\* MI - APC
MinusAPC(MI) ==
  [i \in 1..Len(MI) |-> [j \in 1..Len(MI) |->
     RSub(MI[i][j], RDiv(RMul(MI_1D(MI)[i], MI_1D(MI)[j]), MI_av(MI)))]]

\* MI - ASC
MinusASC(MI) ==
  [i \in 1..Len(MI) |-> [j \in 1..Len(MI) |->
     RSub(MI[i][j], RSub(RAdd(MI_1D(MI)[i], MI_1D(MI)[j]), MI_av(MI)))]]

\* np.stack([MI, MIr, MIp, MIa], 2), from the entropies on
mutual_information(h1, h2) ==
  LET MI == no_diag(RawMI(h1, h2))
      MIp == no_diag(MinusAPC(MI))
      MIa == no_diag(MinusASC(MI))
  IN [i \in 1..Len(h1) |-> [j \in 1..Len(h1) |->
        <<MI[i][j], RDiv(MI[i][j], RAdd(h2[i][j], Rat(1, 100000))),
          MIp[i][j], MIa[i][j]>>]]

\* the entropy values drawn
EntropyValues == {Zero, One}

InitMI ==
  /\ \E n \in 1..MaxMIRes :
       /\ H_1D \in [1..n -> EntropyValues]
       /\ H_2D \in [1..n -> [1..n -> EntropyValues]]
  /\ MI_feats = None
  /\ pc = "mutual_information"
  /\ sequence = None
  /\ a3m_seqs = None
  /\ clean = None
  /\ seq_mat = None
  /\ weights = None
  /\ feat = None
  /\ NoAux
  /\ NoProfiles

MutualInformation ==
  /\ pc = "mutual_information"
  /\ MI_feats' = mutual_information(H_1D, H_2D)
  /\ pc' = "done"
  /\ UNCHANGED <<inVars, seq_mat, weights, feat, auxVars, profVars, H_1D, H_2D>>

NextMI == MutualInformation

SpecMI == InitMI /\ [][NextMI]_vars

\* C6: in the tensor mutual_information returns the diagonal entries of the MI,
\* the MIp and the MIa channel are exactly 0 for every input, a single column
\* (L = 1) and a zero average MI included, and no_diag leaves the off-diagonal
\* entries as they were.
C6_DiagonalsZero ==
  pc = "done" =>
    /\ \A i \in 1..Len(H_1D) :
         /\ MI_feats[i][i][1] = Zero
         /\ MI_feats[i][i][3] = Zero
         /\ MI_feats[i][i][4] = Zero
    /\ \A i, j \in 1..Len(H_1D) :
         i # j =>
           /\ MI_feats[i][j][1] = RawMI(H_1D, H_2D)[i][j]
           /\ MI_feats[i][j][3] = MinusAPC(no_diag(RawMI(H_1D, H_2D)))[i][j]
           /\ MI_feats[i][j][4] = MinusASC(no_diag(RawMI(H_1D, H_2D)))[i][j]

====
